---- MODULE Spec2Model ----
(***************************************************************************)
(* Model of keras/layers/wrappers.py: the Wrapper base class and its two   *)
(* subclasses TimeDistributed and Bidirectional.                           *)
(*                                                                         *)
(* Python values are encoded as follows.                                   *)
(*   - a shape is a sequence of axis sizes; the size None is NoneDim;      *)
(*   - a string built by '+' is the sequence of its pieces;                *)
(*   - a dict is a function (record) on its keys;                          *)
(*   - a call that may raise returns a record with a "raised" field.       *)
(* Each group of variables belongs to one specification; a specification   *)
(* leaves the other groups at their idle values.                           *)
(***************************************************************************)
EXTENDS Integers, Sequences, FiniteSets, TLC

VARIABLES
    \* ---- serialization (get_config / from_config) ----
    wrapper,        \* the wrapper object under study
    previous,       \* the wrapper it was rebuilt from by the last round trip
    trips,          \* number of get_config/from_config round trips done
    \* ---- build lifecycle ----
    bkind,          \* class of the wrapper being built
    layer,          \* self.layer (for Bidirectional also self.forward_layer)
    backward_layer, \* self.backward_layer (Bidirectional only)
    input_spec,     \* self.input_spec: the shapes stored by TimeDistributed.build
    exposed,        \* attributes assigned on the wrapper by Wrapper.build
    wbuild,         \* bookkeeping of Wrapper.build: calls, inner built flag seen
    builds,         \* number of completed subclass build() calls
    first_input,    \* the input_shape argument of the first subclass build()
    build_raised,   \* the exception raised by the last subclass build(), if any
    \* ---- TimeDistributed.compute_mask ----
    input_mask,     \* the input_mask argument: one mask or a list of masks
    mask_result,    \* what compute_mask returned (or raised), once it has run
    \* ---- get_output_shape_for ----
    shape_wrapper,  \* the wrapper whose shape inference is called: class, inner layer, merge mode
    shape_input,    \* the input_shape argument
    shape_result,   \* what get_output_shape_for returned (or raised), once it has run
    \* ---- weights of a Bidirectional wrapper ----
    w_forward,      \* the forward layer: its initial_weights and its current weights
    w_backward,     \* the backward layer, likewise
    w_arg,          \* the weight list last supplied, and how (constructor or set_weights)
    w_calls,        \* the inner set_weights calls made by the last Bidirectional.set_weights
    w_raised,       \* the exception that left the last Bidirectional.set_weights, if any
    w_got,          \* the list returned by get_weights, if called since the last change
    \* ---- TimeDistributed.call ----
    c_input_spec,   \* self.input_spec: the declared shape of each input
    c_regularizer,  \* whether the inner layer has an activity regularizer
    c_X,            \* the X argument of the last call: one tensor or a list of tensors
    c_y,            \* the tensor the last call returned
    c_losses,       \* the (loss, inputs) pairs registered with add_loss
    c_calls,        \* number of calls made
    \* ---- Bidirectional.call ----
    b_wrapper,      \* the Bidirectional wrapper: merge mode, return_sequences, its two layers
    b_X,            \* the input tensor X: its time steps, in order
    b_mask,         \* the mask argument
    b_forward_call, \* the arguments the forward layer's call received
    b_backward_call,\* the arguments the backward layer's call received
    b_out,          \* what Bidirectional.call returned: one tensor or a list of two
    \* ---- collection properties of Bidirectional ----
    v_forward,      \* the forward layer's five collections
    v_backward,     \* the backward layer's five collections
    v_read,         \* the property last read on the wrapper and the value it gave, if nothing changed since
    v_changes       \* number of changes made to the inner layers' collections

varsConfig == <<wrapper, previous, trips>>

varsBuild == <<bkind, layer, backward_layer, input_spec, exposed, wbuild, builds,
               first_input, build_raised>>

varsMask == <<input_mask, mask_result>>

varsShape == <<shape_wrapper, shape_input, shape_result>>

varsWeights == <<w_forward, w_backward, w_arg, w_calls, w_raised, w_got>>

varsTDCall == <<c_input_spec, c_regularizer, c_X, c_y, c_losses, c_calls>>

varsBiCall == <<b_wrapper, b_X, b_mask, b_forward_call, b_backward_call, b_out>>

varsViews == <<v_forward, v_backward, v_read, v_changes>>

vars == <<wrapper, previous, trips, bkind, layer, backward_layer, input_spec,
          exposed, wbuild, builds, first_input, build_raised, input_mask,
          mask_result, shape_wrapper, shape_input, shape_result, w_forward,
          w_backward, w_arg, w_calls, w_raised, w_got, c_input_spec,
          c_regularizer, c_X, c_y, c_losses, c_calls, b_wrapper, b_X, b_mask,
          b_forward_call, b_backward_call, b_out, v_forward, v_backward,
          v_read, v_changes>>

----------------------------------------------------------------------------
(* Bounds *)
MaxTrips == 3
MaxDim == 2
MaxBuilds == 2
MaskLen == 2
MaxMasks == 3
MaxWeights == 4
MaxLayerWeights == 2
MaxCalls == 2
MaxSteps == 3
NumUnits == 2
MaxItems == 2
MaxChanges == 2

----------------------------------------------------------------------------
(* Shared encodings *)

\* Python's None where a value of another kind is expected.
NoneStr == "None"

MergeModes == {"sum", "mul", "ave", "concat", NoneStr}

\* The axis size None (unknown); known sizes are positive.
NoneDim == 0

Dims == {NoneDim} \cup (1..MaxDim)

ShapesOfRank(r) == [1..r -> Dims]

\* A shape argument: one bare shape (is_list FALSE, one entry) or a list.
Bare(shape) == [is_list |-> FALSE, shapes |-> <<shape>>]

ListOf(shapes) == [is_list |-> TRUE, shapes |-> shapes]

NoArg == [is_list |-> FALSE, shapes |-> <<>>]

\* The lists of at most n elements of S.
RECURSIVE SeqsUpTo(_, _)
SeqsUpTo(S, n) ==
    IF n = 0 THEN {<<>>}
    ELSE SeqsUpTo(S, n - 1) \cup [1..n -> S]

----------------------------------------------------------------------------
(* Idle values of each group of variables *)

IdleConfig ==
    /\ wrapper = NoneStr
    /\ previous = NoneStr
    /\ trips = 0

IdleBuild ==
    /\ bkind = NoneStr
    /\ layer = NoneStr
    /\ backward_layer = NoneStr
    /\ input_spec = <<>>
    /\ exposed = NoneStr
    /\ wbuild = NoneStr
    /\ builds = 0
    /\ first_input = NoArg
    /\ build_raised = NoneStr

IdleMask ==
    /\ input_mask = NoneStr
    /\ mask_result = [raised |-> "not run", value |-> [present |-> FALSE, bits |-> <<>>]]

IdleShape ==
    /\ shape_wrapper = NoneStr
    /\ shape_input = NoArg
    /\ shape_result = [raised |-> "not run", is_list |-> FALSE, shapes |-> <<>>]

IdleWeights ==
    /\ w_forward = NoneStr
    /\ w_backward = NoneStr
    /\ w_arg = [via |-> "none", w |-> <<>>]
    /\ w_calls = <<>>
    /\ w_raised = NoneStr
    /\ w_got = [fetched |-> FALSE, w |-> <<>>]

IdleTDCall ==
    /\ c_input_spec = <<>>
    /\ c_regularizer = FALSE
    /\ c_X = [is_list |-> FALSE, items |-> <<>>]
    /\ c_y = <<>>
    /\ c_losses = <<>>
    /\ c_calls = 0

IdleBiCall ==
    /\ b_wrapper = NoneStr
    /\ b_X = <<>>
    /\ b_mask = NoneStr
    /\ b_forward_call = [called |-> FALSE, X |-> <<>>, mask |-> NoneStr]
    /\ b_backward_call = [called |-> FALSE, X |-> <<>>, mask |-> NoneStr]
    /\ b_out = [called |-> FALSE, is_list |-> FALSE, tensors |-> <<>>]

IdleViews ==
    /\ v_forward = NoneStr
    /\ v_backward = NoneStr
    /\ v_read = [attr |-> "none", list |-> <<>>, dict |-> <<>>]
    /\ v_changes = 0

\* For each specification: the variables of the other groups, and their idle values.
outsideConfig == <<varsBuild, varsMask, varsShape, varsWeights, varsTDCall, varsBiCall, varsViews>>

IdleOutsideConfig ==
    /\ IdleBuild
    /\ IdleMask
    /\ IdleShape
    /\ IdleWeights
    /\ IdleTDCall
    /\ IdleBiCall
    /\ IdleViews

outsideBuild == <<varsConfig, varsMask, varsShape, varsWeights, varsTDCall, varsBiCall, varsViews>>

IdleOutsideBuild ==
    /\ IdleConfig
    /\ IdleMask
    /\ IdleShape
    /\ IdleWeights
    /\ IdleTDCall
    /\ IdleBiCall
    /\ IdleViews

outsideMask == <<varsConfig, varsBuild, varsShape, varsWeights, varsTDCall, varsBiCall, varsViews>>

IdleOutsideMask ==
    /\ IdleConfig
    /\ IdleBuild
    /\ IdleShape
    /\ IdleWeights
    /\ IdleTDCall
    /\ IdleBiCall
    /\ IdleViews

outsideShape == <<varsConfig, varsBuild, varsMask, varsWeights, varsTDCall, varsBiCall, varsViews>>

IdleOutsideShape ==
    /\ IdleConfig
    /\ IdleBuild
    /\ IdleMask
    /\ IdleWeights
    /\ IdleTDCall
    /\ IdleBiCall
    /\ IdleViews

outsideWeights == <<varsConfig, varsBuild, varsMask, varsShape, varsTDCall, varsBiCall, varsViews>>

IdleOutsideWeights ==
    /\ IdleConfig
    /\ IdleBuild
    /\ IdleMask
    /\ IdleShape
    /\ IdleTDCall
    /\ IdleBiCall
    /\ IdleViews

outsideTDCall == <<varsConfig, varsBuild, varsMask, varsShape, varsWeights, varsBiCall, varsViews>>

IdleOutsideTDCall ==
    /\ IdleConfig
    /\ IdleBuild
    /\ IdleMask
    /\ IdleShape
    /\ IdleWeights
    /\ IdleBiCall
    /\ IdleViews

outsideBiCall == <<varsConfig, varsBuild, varsMask, varsShape, varsWeights, varsTDCall, varsViews>>

IdleOutsideBiCall ==
    /\ IdleConfig
    /\ IdleBuild
    /\ IdleMask
    /\ IdleShape
    /\ IdleWeights
    /\ IdleTDCall
    /\ IdleViews

outsideViews == <<varsConfig, varsBuild, varsMask, varsShape, varsWeights, varsTDCall, varsBiCall>>

IdleOutsideViews ==
    /\ IdleConfig
    /\ IdleBuild
    /\ IdleMask
    /\ IdleShape
    /\ IdleWeights
    /\ IdleTDCall
    /\ IdleBiCall
----------------------------------------------------------------------------
(* Serialization *)

\* An inner recurrent layer object: its class and its configuration fields.
LayerNames == {<<"lstm">>, <<"gru_1">>}

InnerLayers ==
    [class_name : {"LSTM"}, name : LayerNames, go_backwards : BOOLEAN,
     return_sequences : BOOLEAN]

\* layer.get_config(): the configuration mapping of an inner layer.
Layer_get_config(lyr) ==
    [name |-> lyr.name, go_backwards |-> lyr.go_backwards,
     return_sequences |-> lyr.return_sequences]

\* layer_from_config({'class_name': c, 'config': cfg}) and cls.from_config(cfg):
\* a new layer of class c whose fields are those of cfg.
layer_from_config(nested) ==
    [class_name |-> nested.class_name, name |-> nested.config.name,
     go_backwards |-> nested.config.go_backwards,
     return_sequences |-> nested.config.return_sequences]

\* Layer.get_config() of the wrapper itself (base layer keys).
base_get_config(w) == [name |-> w.name]

\* TimeDistributed.__init__(layer, **kwargs).  A TimeDistributed object has no
\* backward_layer and no merge_mode; the two fields only keep wrapper records
\* of one form and are never serialised (see get_config).
TimeDistributed_init(lyr, kwargs) ==
    [cls |-> "TimeDistributed", layer |-> lyr, backward_layer |-> lyr,
     merge_mode |-> NoneStr, name |-> kwargs.name]

\* Bidirectional.__init__(layer, merge_mode, **kwargs).  self.forward_layer and
\* self.layer are the object passed in, so the rename of line 263 is seen
\* through self.layer; the backward layer is cloned from the configuration
\* read before the rename.
Bidirectional_init(lyr, merge_mode, kwargs) ==
    LET config   == Layer_get_config(lyr)
        flipped  == [config EXCEPT !.go_backwards = ~config.go_backwards]
        backward == layer_from_config([class_name |-> lyr.class_name,
                                       config |-> flipped])
        forward  == [lyr EXCEPT !.name = <<"forward_">> \o lyr.name]
    IN  [cls |-> "Bidirectional",
         layer |-> forward,
         backward_layer |-> [backward EXCEPT !.name = <<"backward_">> \o backward.name],
         merge_mode |-> merge_mode,
         name |-> kwargs.name]

\* Wrapper.get_config(): the nested layer entry merged over the base config.
Wrapper_get_config(w) ==
    [layer |-> [class_name |-> w.layer.class_name,
                config |-> Layer_get_config(w.layer)]] @@ base_get_config(w)

\* Bidirectional.get_config(): adds merge_mode.
Bidirectional_get_config(w) ==
    [merge_mode |-> w.merge_mode] @@ Wrapper_get_config(w)

get_config(w) ==
    IF w.cls = "Bidirectional" THEN Bidirectional_get_config(w)
    ELSE Wrapper_get_config(w)

\* Wrapper.from_config(cls, config): pops 'layer', rebuilds the inner layer,
\* and passes the remaining keys to the constructor.
Wrapper_from_config(cls, config) ==
    LET lyr == layer_from_config(config.layer)
    IN  IF cls = "Bidirectional"
        THEN Bidirectional_init(lyr, config.merge_mode, [name |-> config.name])
        ELSE TimeDistributed_init(lyr, [name |-> config.name])

InitConfig ==
    /\ \E lyr \in InnerLayers, nm \in {<<"wrapper_1">>} :
         \/ wrapper = TimeDistributed_init(lyr, [name |-> nm])
         \/ \E m \in MergeModes : wrapper = Bidirectional_init(lyr, m, [name |-> nm])
    /\ previous = wrapper
    /\ trips = 0
    /\ IdleOutsideConfig

\* w2 = type(w).from_config(w.get_config())
RoundTrip ==
    /\ trips < MaxTrips
    /\ wrapper' = Wrapper_from_config(wrapper.cls, get_config(wrapper))
    /\ previous' = wrapper
    /\ trips' = trips + 1
    /\ UNCHANGED outsideConfig

NextConfig == RoundTrip

SpecConfig == InitConfig /\ [][NextConfig]_vars

\* C1: from_config(w.get_config()) yields a wrapper whose inner layer config
\* (every key, the layer name included) and merge mode equal those of w, for
\* TimeDistributed and for Bidirectional, after every round trip.
C1_RoundTripPreservesConfig ==
    trips > 0 =>
        /\ Layer_get_config(wrapper.layer) = Layer_get_config(previous.layer)
        /\ wrapper.layer.class_name = previous.layer.class_name
        /\ wrapper.merge_mode = previous.merge_mode

----------------------------------------------------------------------------
(* Build lifecycle *)

\* (shape[0],) + shape[2:] : the batch axis kept, the time axis dropped.
ChildShape(shape) == <<shape[1]>> \o SubSeq(shape, 3, Len(shape))

\* child_input_shape of TimeDistributed.build: the list of child shapes, or the
\* bare child shape when there is exactly one input.
ChildInputShape(shapes) ==
    IF Len(shapes) = 1 THEN Bare(ChildShape(shapes[1]))
    ELSE ListOf([i \in 1..Len(shapes) |-> ChildShape(shapes[i])])

\* An inner layer as constructed: not built, no weights yet.  sets_built says
\* whether the layer's own build() sets self.built (the base Layer.build does,
\* an overriding build need not).
NewLayer(sets_built) ==
    [built |-> FALSE, sets_built |-> sets_built, build_calls |-> 0,
     build_arg |-> NoArg,
     trainable_weights |-> <<>>, non_trainable_weights |-> <<>>,
     updates |-> <<>>, losses |-> <<>>, constraints |-> <<>>]

\* layer.build(shape): creates the layer's weights (new objects at every call)
\* and the collections that go with them.
Layer_build(lyr, arg) ==
    LET n == lyr.build_calls + 1
    IN  [lyr EXCEPT !.build_calls = n,
                    !.build_arg = IF lyr.build_calls = 0 THEN arg ELSE @,
                    !.built = IF lyr.sets_built THEN TRUE ELSE @,
                    !.trainable_weights = <<<<"W", n>>, <<"b", n>>>>,
                    !.non_trainable_weights = <<<<"state", n>>>>,
                    !.updates = <<<<"update", n>>>>,
                    !.losses = <<<<"W_regularizer", n>>>>,
                    !.constraints = <<<<"W", n, "maxnorm">>>>]

\* The five collections Wrapper.build copies.
Collections(lyr) ==
    [trainable_weights |-> lyr.trainable_weights,
     non_trainable_weights |-> lyr.non_trainable_weights,
     updates |-> lyr.updates, losses |-> lyr.losses,
     constraints |-> lyr.constraints]

\* Wrapper.build(): binds the wrapper's five attributes to the inner layer's.
Wrapper_build(lyr) == Collections(lyr)

\* The input_shape arguments build() is called with: one shape of rank 2 or 3,
\* or a list of two rank-3 shapes, the second one broadcastable (one time step).
BuildInputs ==
    {Bare(s) : s \in ShapesOfRank(2) \cup ShapesOfRank(3)}
    \cup {ListOf(<<s, <<s[1], 1, s[3]>>>>) : s \in ShapesOfRank(3)}

InitBuild ==
    /\ bkind \in {"TimeDistributed", "Bidirectional"}
    /\ \E sb \in BOOLEAN :
         /\ layer = NewLayer(sb)
         /\ backward_layer = NewLayer(sb)
    /\ input_spec = <<>>
    /\ exposed = Collections(NewLayer(FALSE))
    /\ wbuild = [calls |-> 0, inner_built |-> FALSE]
    /\ builds = 0
    /\ first_input = NoArg
    /\ build_raised = NoneStr
    /\ IdleOutsideBuild

\* TimeDistributed.build(input_shape)
TimeDistributed_build ==
    \E input_shape \in BuildInputs :
        LET shapes == input_shape.shapes
            child  == ChildInputShape(shapes)
            inner  == IF ~layer.built
                      THEN [Layer_build(layer, child) EXCEPT !.built = TRUE]
                      ELSE layer
        IN  /\ bkind = "TimeDistributed"
            /\ builds < MaxBuilds
            /\ \A i \in 1..Len(shapes) : Len(shapes[i]) >= 3
            /\ input_spec' = shapes
            /\ layer' = inner
            /\ exposed' = Wrapper_build(inner)
            /\ wbuild' = [calls |-> wbuild.calls + 1, inner_built |-> inner.built]
            /\ builds' = builds + 1
            /\ first_input' = IF builds = 0 THEN input_shape ELSE first_input
            /\ build_raised' = NoneStr
            /\ UNCHANGED <<bkind, backward_layer>>
            /\ UNCHANGED outsideBuild

\* TimeDistributed.build on a shape of rank below 3: the assert of line 100
\* raises before anything is assigned.
TimeDistributed_build_rejected ==
    \E input_shape \in BuildInputs :
        /\ bkind = "TimeDistributed"
        /\ \E i \in 1..Len(input_shape.shapes) : Len(input_shape.shapes[i]) < 3
        /\ build_raised' = "AssertionError"
        /\ UNCHANGED <<bkind, layer, backward_layer, input_spec, exposed, wbuild,
                       builds, first_input>>
        /\ UNCHANGED outsideBuild

\* Bidirectional.build(input_shape), on the rank-3 input of a recurrent layer.
Bidirectional_build ==
    \E s \in ShapesOfRank(3) :
        /\ bkind = "Bidirectional"
        /\ builds < MaxBuilds
        /\ layer' = Layer_build(layer, Bare(s))
        /\ backward_layer' = Layer_build(backward_layer, Bare(s))
        /\ builds' = builds + 1
        /\ first_input' = IF builds = 0 THEN Bare(s) ELSE first_input
        /\ build_raised' = NoneStr
        /\ UNCHANGED <<bkind, input_spec, exposed, wbuild>>
        /\ UNCHANGED outsideBuild

NextBuild ==
    \/ TimeDistributed_build
    \/ TimeDistributed_build_rejected
    \/ Bidirectional_build

SpecBuild == InitBuild /\ [][NextBuild]_vars

\* The inner layers of the wrapper.
InnerLayersOf ==
    IF bkind = "Bidirectional" THEN {layer, backward_layer} ELSE {layer}

\* The shape the wrapper derives for its inner layer(s) from the input of its
\* first build: the child shape for TimeDistributed, the input shape itself
\* for Bidirectional.
DerivedShape ==
    IF bkind = "TimeDistributed" THEN ChildInputShape(first_input.shapes)
    ELSE first_input

\* C2: after any sequence of wrapper builds, each inner layer's build has been
\* invoked exactly once, by the first wrapper build, with the derived shape,
\* and the inner layer's built flag is true; later wrapper builds do not build
\* the inner layer again.  For TimeDistributed and for both layers of
\* Bidirectional.
C2_InnerBuiltExactlyOnce ==
    builds > 0 =>
        \A lyr \in InnerLayersOf :
            /\ lyr.build_calls = 1
            /\ lyr.built
            /\ lyr.build_arg = DerivedShape

\* C7: every subclass build invokes Wrapper.build, after the inner layer is
\* built, so that the wrapper's five collections are the inner layer's as they
\* are after the inner layer's build.
C7_SubclassBuildCallsWrapperBuild ==
    builds > 0 =>
        /\ wbuild.calls = builds
        /\ wbuild.inner_built
        /\ exposed = Collections(layer)

----------------------------------------------------------------------------
(* Mask computation *)

\* A mask tensor is its sequence of 0/1 entries; NoMask is Python's None.
NoMask == [present |-> FALSE, bits |-> <<>>]

Mask(bits) == [present |-> TRUE, bits |-> bits]

MaskValues == {NoMask} \cup {Mask(b) : b \in [1..MaskLen -> {0, 1}]}

\* The outcome of a call: a returned value, or an exception.
Returned(v) == [raised |-> NoneStr, value |-> v]

Raised(e) == [raised |-> e, value |-> NoMask]

\* compute_mask has not been called yet.
NotRun == [raised |-> "not run", value |-> NoMask]

HasRun(result) == result.raised # "not run"

\* K.concatenate(tensors): joins the tensors into one; an entry that is no
\* tensor (None) is rejected by the backend.
K_concatenate(tensors) ==
    IF \E i \in 1..Len(tensors) : ~tensors[i].present
    THEN Raised("TypeError")
    ELSE Returned(tensors)

\* K.prod(x, axis=0) on the joined masks: the product across the joined axis,
\* entry by entry.
RECURSIVE ProdFrom(_, _, _)
ProdFrom(stack, i, pos) ==
    IF i > Len(stack) THEN 1
    ELSE stack[i].bits[pos] * ProdFrom(stack, i + 1, pos)

K_prod(stack) == Mask([pos \in 1..MaskLen |-> ProdFrom(stack, 1, pos)])

\* [m for m in input_mask if m is not None]
IsPresent(m) == m.present

not_None_masks(masks) == SelectSeq(masks, IsPresent)

\* TimeDistributed.compute_mask(input, input_mask)
TimeDistributed_compute_mask(arg) ==
    IF ~arg.is_list THEN Returned(arg.masks[1])
    ELSE IF ~(\E i \in 1..Len(arg.masks) : arg.masks[i].present)
    THEN Returned(NoMask)
    ELSE IF Len(not_None_masks(arg.masks)) = 1
    THEN Returned(not_None_masks(arg.masks)[1])
    ELSE LET joined == K_concatenate(arg.masks)
         IN  IF joined.raised # NoneStr THEN joined
             ELSE Returned(K_prod(joined.value))

MaskInputs ==
    {[is_list |-> FALSE, masks |-> <<m>>] : m \in MaskValues}
    \cup {[is_list |-> TRUE, masks |-> ms] : ms \in SeqsUpTo(MaskValues, MaxMasks) \ {<<>>}}

InitMask ==
    /\ input_mask \in MaskInputs
    /\ mask_result = NotRun
    /\ IdleOutsideMask

\* mask = td.compute_mask(x, input_mask)
ComputeMask ==
    /\ ~HasRun(mask_result)
    /\ mask_result' = TimeDistributed_compute_mask(input_mask)
    /\ UNCHANGED input_mask
    /\ UNCHANGED outsideMask

NextMask == ComputeMask

SpecMask == InitMask /\ [][NextMask]_vars

\* The present entries of the argument, and their elementwise logical AND.
PresentIn(masks) == {i \in 1..Len(masks) : masks[i].present}

AndOfPresent(masks) ==
    Mask([pos \in 1..MaskLen |->
            IF \A i \in PresentIn(masks) : masks[i].bits[pos] = 1 THEN 1 ELSE 0])

\* C3: compute_mask returns a non-list mask unchanged; on a list it returns
\* None when every entry is absent, the one present mask when exactly one is
\* present, and otherwise the elementwise AND of exactly the present masks,
\* absent entries taking no part.
C3_MaskCombination ==
    HasRun(mask_result) =>
        /\ mask_result.raised = NoneStr
        /\ mask_result.value =
             IF ~input_mask.is_list THEN input_mask.masks[1]
             ELSE IF PresentIn(input_mask.masks) = {} THEN NoMask
             ELSE IF Cardinality(PresentIn(input_mask.masks)) = 1
             THEN input_mask.masks[CHOOSE i \in PresentIn(input_mask.masks) : TRUE]
             ELSE AndOfPresent(input_mask.masks)

----------------------------------------------------------------------------
(* Shape inference *)

\* The outcome of get_output_shape_for: one shape, a list of shapes, or an
\* exception.
ShapeReturned(arg) == [raised |-> NoneStr, is_list |-> arg.is_list, shapes |-> arg.shapes]

ShapeRaised(e) == [raised |-> e, is_list |-> FALSE, shapes |-> <<>>]

\* The size of the last axis of an inner layer's output: its number of units,
\* or None where the layer cannot infer it.
InnerLayerUnits == Dims

\* Recurrent.get_output_shape_for(input_shape): (batch, time, units) when the
\* layer returns sequences, (batch, units) otherwise.
Recurrent_get_output_shape_for(lyr, s) ==
    IF lyr.return_sequences THEN <<s[1], s[2], lyr.units>>
    ELSE <<s[1], lyr.units>>

\* shape[-1] *= 2 : Python multiplies an int and raises TypeError on None.
TimesTwo(d) == d * 2

DoubleLastAxis(shape) ==
    IF shape[Len(shape)] = NoneDim THEN ShapeRaised("TypeError")
    ELSE ShapeReturned(Bare([shape EXCEPT ![Len(shape)] = TimesTwo(@)]))

\* Bidirectional.get_output_shape_for(input_shape)
Bidirectional_get_output_shape_for(w, s) ==
    LET forward == Recurrent_get_output_shape_for(w.layer, s)
    IN  IF w.merge_mode \in {"sum", "ave", "mul"} THEN ShapeReturned(Bare(forward))
        ELSE IF w.merge_mode = "concat" THEN DoubleLastAxis(forward)
        ELSE ShapeReturned(ListOf(<<forward, forward>>))

\* The inner layer's get_output_shape_for under TimeDistributed: the batch axis
\* and the inner axes are kept and the last axis becomes the layer's units; a
\* layer with several inputs infers from its first input's shape.
Inner_get_output_shape_for(lyr, arg) ==
    LET s == arg.shapes[1]
    IN  [s EXCEPT ![Len(s)] = lyr.units]

SetMax(S) == CHOOSE m \in S : \A x \in S : x <= m

\* Mutant of TimeDistributed.get_output_shape_for: the sequence length is taken
\* from the first input alone (timesteps = input_shape[0][1]).
TimeDistributed_get_output_shape_for_first(w, input_shape) ==
    LET shapes == input_shape.shapes
        child_input_shape ==
            IF input_shape.is_list
            THEN ListOf([i \in 1..Len(shapes) |-> ChildShape(shapes[i])])
            ELSE Bare(ChildShape(shapes[1]))
        child_output_shape == Inner_get_output_shape_for(w.layer, child_input_shape)
    IN  ShapeReturned(Bare(<<child_output_shape[1], shapes[1][2]>> \o Tail(child_output_shape)))

\* TimeDistributed.get_output_shape_for(input_shape)
TimeDistributed_get_output_shape_for(w, input_shape) ==
    LET shapes == input_shape.shapes
        all_timesteps == {shapes[i][2] : i \in 1..Len(shapes)}
        timesteps ==
            IF input_shape.is_list
            THEN IF NoneDim \in all_timesteps THEN NoneDim ELSE SetMax(all_timesteps)
            ELSE shapes[1][2]
        child_input_shape ==
            IF input_shape.is_list
            THEN ListOf([i \in 1..Len(shapes) |-> ChildShape(shapes[i])])
            ELSE Bare(ChildShape(shapes[1]))
        child_output_shape == Inner_get_output_shape_for(w.layer, child_input_shape)
    IN  ShapeReturned(Bare(<<child_output_shape[1], timesteps>> \o Tail(child_output_shape)))

ShapeNotRun == ShapeRaised("not run")

ShapeHasRun == shape_result.raised # "not run"

\* A Bidirectional wrapper around a recurrent layer, on a (batch, time, features)
\* input shape.
InitBiShape ==
    /\ \E m \in MergeModes, u \in InnerLayerUnits, rs \in BOOLEAN :
         shape_wrapper = [cls |-> "Bidirectional", merge_mode |-> m,
                          layer |-> [units |-> u, return_sequences |-> rs]]
    /\ shape_input \in {Bare(s) : s \in ShapesOfRank(3)}
    /\ shape_result = ShapeNotRun
    /\ IdleOutsideShape

\* shape = bidirectional.get_output_shape_for(input_shape)
BiShapeFor ==
    /\ ~ShapeHasRun
    /\ shape_wrapper.cls = "Bidirectional"
    /\ shape_result' = Bidirectional_get_output_shape_for(shape_wrapper, shape_input.shapes[1])
    /\ UNCHANGED <<shape_wrapper, shape_input>>
    /\ UNCHANGED outsideShape

NextBiShape == BiShapeFor

SpecBiShape == InitBiShape /\ [][NextBiShape]_vars

\* A TimeDistributed wrapper, on one input shape of rank 3 or 4 or on a list of
\* two rank-3 input shapes.
InitTDShape ==
    /\ \E u \in 1..MaxDim :
         shape_wrapper = [cls |-> "TimeDistributed", merge_mode |-> NoneStr,
                          layer |-> [units |-> u, return_sequences |-> FALSE]]
    /\ shape_input \in {Bare(s) : s \in ShapesOfRank(3) \cup ShapesOfRank(4)}
                       \cup {ListOf(<<s, t>>) : s \in ShapesOfRank(3), t \in ShapesOfRank(3)}
    /\ shape_result = ShapeNotRun
    /\ IdleOutsideShape

\* shape = time_distributed.get_output_shape_for(input_shape)
TDShapeFor ==
    /\ ~ShapeHasRun
    /\ shape_wrapper.cls = "TimeDistributed"
    /\ shape_result' = TimeDistributed_get_output_shape_for(shape_wrapper, shape_input)
    /\ UNCHANGED <<shape_wrapper, shape_input>>
    /\ UNCHANGED outsideShape

NextTDShape == TDShapeFor

SpecTDShape == InitTDShape /\ [][NextTDShape]_vars

\* The inner recurrent layer's inferred shape for the input, and that shape with
\* its last axis doubled (an unknown size doubled stays unknown).
InferredShape == Recurrent_get_output_shape_for(shape_wrapper.layer, shape_input.shapes[1])

Doubled(shape) ==
    [shape EXCEPT ![Len(shape)] = IF @ = NoneDim THEN NoneDim ELSE @ + @]

\* C4: Bidirectional.get_output_shape_for(s) equals the inner layer's inferred
\* shape for sum, ave and mul, that shape with the last axis doubled for concat,
\* and a pair of that shape for merge mode None; for every shape the layer can
\* infer, a last axis of None included.
C4_BidirectionalOutputShape ==
    (ShapeHasRun /\ shape_wrapper.cls = "Bidirectional") =>
        /\ shape_result.raised = NoneStr
        /\ shape_wrapper.merge_mode \in {"sum", "ave", "mul"} =>
             (~shape_result.is_list /\ shape_result.shapes = <<InferredShape>>)
        /\ shape_wrapper.merge_mode = "concat" =>
             (~shape_result.is_list /\ shape_result.shapes = <<Doubled(InferredShape)>>)
        /\ shape_wrapper.merge_mode = NoneStr =>
             (shape_result.is_list /\ shape_result.shapes = <<InferredShape, InferredShape>>)

\* The sequence lengths (axis 1) of the inputs.
SequenceLengths == {shape_input.shapes[i][2] : i \in 1..Len(shape_input.shapes)}

\* C5: for one input shape s of rank >= 3, TimeDistributed.get_output_shape_for(s)
\* has axis 0 equal to s[0], axis 1 equal to s[1], and then the inner layer's
\* inferred axes after the batch axis for the child shape (s[0],) + s[2:]; for a
\* list of input shapes, axis 1 is None if any input's sequence length is None
\* and the maximum sequence length otherwise.
C5_TimeDistributedOutputShape ==
    (ShapeHasRun /\ shape_wrapper.cls = "TimeDistributed") =>
        LET out == shape_result.shapes[1]
            s   == shape_input.shapes[1]
        IN  /\ shape_result.raised = NoneStr
            /\ ~shape_result.is_list
            /\ ~shape_input.is_list =>
                 /\ out[1] = s[1]
                 /\ out[2] = s[2]
                 /\ SubSeq(out, 3, Len(out)) =
                      Tail(Inner_get_output_shape_for(shape_wrapper.layer,
                                                      Bare(<<s[1]>> \o SubSeq(s, 3, Len(s)))))
            /\ shape_input.is_list =>
                 /\ (NoneDim \in SequenceLengths) => out[2] = NoneDim
                 /\ (NoneDim \notin SequenceLengths) =>
                      /\ out[2] \in SequenceLengths
                      /\ \A n \in SequenceLengths : n <= out[2]

\* C5 witnesses: a single-shape call and a list call with two different known
\* sequence lengths have run.
C5_Witness ==
    /\ ShapeHasRun
    /\ shape_wrapper.cls = "TimeDistributed"
    /\ shape_input.is_list
    /\ shape_input.shapes[1][2] = 1
    /\ shape_input.shapes[2][2] = 2
    /\ shape_result.shapes = <<<<shape_input.shapes[1][1], 2, shape_wrapper.layer.units>>>>

----------------------------------------------------------------------------
(* Weights of a Bidirectional wrapper *)

WeightValues == {1, 2}

WeightLists == SeqsUpTo(WeightValues, MaxWeights)

\* Mutant of the split index: rounds the half up.
HalfRoundedUp(nw) == (nw + 1) \div 2

\* nw // 2 : the index at which a weight list is split.
Half(nw) == nw \div 2

\* weights[:nw // 2] and weights[nw // 2:]
FirstHalf(weights) == SubSeq(weights, 1, Half(Len(weights)))

SecondHalf(weights) == SubSeq(weights, Half(Len(weights)) + 1, Len(weights))

\* initial_weights of a layer: not assigned (None), or a list.
NoInitialWeights == [assigned |-> FALSE, w |-> <<>>]

InitialWeights(w) == [assigned |-> TRUE, w |-> w]

\* An inner layer with k weight tensors, all holding the value 0 at first.
LayerWithWeights(k) ==
    [initial_weights |-> NoInitialWeights, weights |-> [i \in 1..k |-> 0]]

\* layer.set_weights(w): a list whose length is not the layer's number of
\* weights is rejected; otherwise its values are loaded.
Layer_set_weights(lyr, w) ==
    IF Len(w) # Len(lyr.weights)
    THEN [raised |-> "ShapeMismatch", layer |-> lyr]
    ELSE [raised |-> NoneStr, layer |-> [lyr EXCEPT !.weights = w]]

\* layer.get_weights(): the current values of the layer's weights.
Layer_get_weights(lyr) == lyr.weights

\* Bidirectional.get_weights()
Bidirectional_get_weights == Layer_get_weights(w_forward) \o Layer_get_weights(w_backward)

\* Bidirectional.__init__(layer, weights=...) on a template with k weights:
\* the weights argument is None (given FALSE) or a list.
InitWeights ==
    /\ \E k \in 1..MaxLayerWeights, given \in BOOLEAN, weights \in WeightLists :
         /\ given \/ weights = <<>>
         /\ w_arg = [via |-> IF given THEN "init" ELSE "none", w |-> weights]
         /\ IF given /\ weights # <<>>
            THEN /\ w_forward = [LayerWithWeights(k) EXCEPT
                                   !.initial_weights = InitialWeights(FirstHalf(weights))]
                 /\ w_backward = [LayerWithWeights(k) EXCEPT
                                   !.initial_weights = InitialWeights(SecondHalf(weights))]
            ELSE /\ w_forward = LayerWithWeights(k)
                 /\ w_backward = LayerWithWeights(k)
    /\ w_calls = <<>>
    /\ w_raised = NoneStr
    /\ w_got = [fetched |-> FALSE, w |-> <<>>]
    /\ IdleOutsideWeights

\* Bidirectional.set_weights(weights): the forward layer is set first; an
\* exception from it leaves the method before the backward layer is reached.
Bidirectional_set_weights ==
    \E weights \in WeightLists :
        LET f == Layer_set_weights(w_forward, FirstHalf(weights))
            b == Layer_set_weights(w_backward, SecondHalf(weights))
        IN  /\ w_arg' = [via |-> "set_weights", w |-> weights]
            /\ w_forward' = f.layer
            /\ IF f.raised # NoneStr
               THEN /\ w_calls' = <<[to |-> "forward", w |-> FirstHalf(weights)]>>
                    /\ w_raised' = f.raised
                    /\ UNCHANGED w_backward
               ELSE /\ w_calls' = <<[to |-> "forward", w |-> FirstHalf(weights)],
                                    [to |-> "backward", w |-> SecondHalf(weights)]>>
                    /\ w_raised' = b.raised
                    /\ w_backward' = b.layer
            /\ w_got' = [fetched |-> FALSE, w |-> <<>>]
            /\ UNCHANGED outsideWeights

\* got = bidirectional.get_weights()
GetWeights ==
    /\ ~w_got.fetched
    /\ w_got' = [fetched |-> TRUE, w |-> Bidirectional_get_weights]
    /\ UNCHANGED <<w_forward, w_backward, w_arg, w_calls, w_raised>>
    /\ UNCHANGED outsideWeights

NextWeights ==
    \/ Bidirectional_set_weights
    \/ GetWeights

SpecWeights == InitWeights /\ [][NextWeights]_vars

\* The entries a layer was given as initial weights (none when unassigned).
InitialEntries(lyr) == IF lyr.initial_weights.assigned THEN lyr.initial_weights.w ELSE <<>>

\* The first n entries of a list, and the entries after them, in order.
Prefix(w, n) == [i \in 1..n |-> w[i]]

Suffix(w, n) == [i \in 1..(Len(w) - n) |-> w[n + i]]

\* A weight list of length N supplied at construction: the first N // 2 entries
\* are the forward layer's initial weights, the other N - N // 2 the backward
\* layer's.
SplitAtConstruction ==
    w_arg.via = "init" =>
        /\ InitialEntries(w_forward) = Prefix(w_arg.w, Len(w_arg.w) \div 2)
        /\ InitialEntries(w_backward) = Suffix(w_arg.w, Len(w_arg.w) \div 2)

\* C6 as stated: for every weight list of length N >= 0, odd or even, the first
\* N // 2 entries go to the forward layer and the other N - N // 2 to the
\* backward layer, at construction and in set_weights, and set_weights(w)
\* followed by get_weights() returns w.
C6_SplitAndRoundTrip ==
    /\ SplitAtConstruction
    /\ w_arg.via = "set_weights" =>
         /\ Len(w_calls) = 2
         /\ w_calls[1].w = Prefix(w_arg.w, Len(w_arg.w) \div 2)
         /\ w_calls[2].w = Suffix(w_arg.w, Len(w_arg.w) \div 2)
         /\ w_got.fetched => w_got.w = w_arg.w

\* C6 amended: the split is as stated, the backward layer receiving its share
\* when the forward layer accepted its own; get_weights returns the forward
\* layer's weights followed by the backward layer's; and set_weights(w) followed
\* by get_weights() returns w when N is twice the number of weights of each
\* inner layer, while for every other N the call raises the inner layer's error.
C6_SplitAndRoundTripWhenAccepted ==
    /\ SplitAtConstruction
    /\ w_arg.via = "set_weights" =>
         /\ Len(w_calls) >= 1
         /\ w_calls[1] = [to |-> "forward", w |-> Prefix(w_arg.w, Len(w_arg.w) \div 2)]
         /\ (Len(w_arg.w) \div 2 = Len(w_forward.weights)) =>
              /\ Len(w_calls) = 2
              /\ w_calls[2] = [to |-> "backward", w |-> Suffix(w_arg.w, Len(w_arg.w) \div 2)]
         /\ (w_raised = NoneStr) <=> (Len(w_arg.w) = 2 * Len(w_forward.weights))
         /\ (w_got.fetched /\ w_raised = NoneStr) => w_got.w = w_arg.w
    /\ w_got.fetched =>
         /\ Len(w_got.w) = Len(w_forward.weights) + Len(w_backward.weights)
         /\ \A i \in 1..Len(w_forward.weights) : w_got.w[i] = w_forward.weights[i]
         /\ \A i \in 1..Len(w_backward.weights) :
              w_got.w[Len(w_forward.weights) + i] = w_backward.weights[i]

\* C6 witness: a list of four weights was set on layers of two weights each and
\* read back.
C6_Witness ==
    /\ w_arg = [via |-> "set_weights", w |-> <<1, 1, 2, 1>>]
    /\ w_forward.weights = <<1, 1>>
    /\ w_backward.weights = <<2, 1>>
    /\ w_got = [fetched |-> TRUE, w |-> <<1, 1, 2, 1>>]

----------------------------------------------------------------------------
(* TimeDistributed.call *)

\* A symbolic tensor is the sequence of the names and operations that made it.
\* A call argument is one tensor (is_list FALSE, one item) or a list of them.
OneTensor(t) == [is_list |-> FALSE, items |-> <<t>>]

TensorList(ts) == [is_list |-> TRUE, items |-> ts]

\* The operands of an operation on one tensor or on a list, written out.
RECURSIVE Operands(_, _)
Operands(items, i) ==
    IF i > Len(items) THEN <<>>
    ELSE items[i] \o (IF i < Len(items) THEN <<",">> ELSE <<>>) \o Operands(items, i + 1)

\* self.layer.call(X)
Layer_call(X) == Operands(X.items, 1) \o <<"layer.call">>

\* K.rnn(step, X, ...)[1] with step(x, states) = (self.layer.call(x), [])
K_rnn_outputs(X) == Operands(X.items, 1) \o <<"rnn(layer.call)">>

\* K.repeatRdim(x, max_length, axis=1) and K.reshape(x, shape)
K_repeatRdim(x) == x \o <<"repeat">>

K_reshape(x) == x \o <<"reshape">>

\* self.layer.activity_regularizer(y)
activity_regularizer(y) == y \o <<"activity_regularizer">>

\* batch_size: some input's declared batch size is not None (lines 181-186).
BatchSizeKnown(input_shapes) ==
    \E i \in 1..Len(input_shapes) : input_shapes[i][1] # NoneDim

\* The reshape path's rebinding of X (lines 204-215): wrapped into a list,
\* inputs of sequence length 1 repeated, every input reshaped, and the list
\* unwrapped again when it holds one tensor.
ReshapedX(X, input_shapes) ==
    LET listed   == X.items
        repeated == [i \in 1..Len(listed) |->
                        IF input_shapes[i][2] = 1 THEN K_repeatRdim(listed[i])
                        ELSE listed[i]]
        reshaped == [i \in 1..Len(listed) |-> K_reshape(repeated[i])]
    IN  IF Len(reshaped) = 1 THEN OneTensor(reshaped[1]) ELSE TensorList(reshaped)

\* TimeDistributed.call(X): the value of the local X when add_loss is reached,
\* and the output y.
CallX(X, input_shapes) ==
    IF BatchSizeKnown(input_shapes) THEN X ELSE ReshapedX(X, input_shapes)

CallY(X, input_shapes) ==
    IF BatchSizeKnown(input_shapes) THEN K_rnn_outputs(X)
    ELSE K_reshape(Layer_call(ReshapedX(X, input_shapes)))

TensorNames == {<<"a">>, <<"b">>}

InitTDCall ==
    /\ c_input_spec \in {<<s>> : s \in ShapesOfRank(3)}
                        \cup {<<s, t>> : s \in ShapesOfRank(3), t \in ShapesOfRank(3)}
    /\ c_regularizer \in BOOLEAN
    /\ c_X = [is_list |-> FALSE, items |-> <<>>]
    /\ c_y = <<>>
    /\ c_losses = <<>>
    /\ c_calls = 0
    /\ IdleOutsideTDCall

\* y = time_distributed.call(X), X being one tensor per declared input
TimeDistributed_call ==
    \E ts \in [1..Len(c_input_spec) -> TensorNames] :
        LET X == IF Len(ts) = 1 THEN OneTensor(ts[1]) ELSE TensorList(ts)
            y == CallY(X, c_input_spec)
        IN  /\ c_calls < MaxCalls
            /\ c_X' = X
            /\ c_y' = y
            /\ c_losses' =
                 IF c_regularizer
                 THEN Append(c_losses, [loss |-> activity_regularizer(y),
                                        inputs |-> CallX(X, c_input_spec)])
                 ELSE c_losses
            /\ c_calls' = c_calls + 1
            /\ UNCHANGED <<c_input_spec, c_regularizer>>
            /\ UNCHANGED outsideTDCall

NextTDCall == TimeDistributed_call

SpecTDCall == InitTDCall /\ [][NextTDCall]_vars

\* C8: with an activity regularizer on the inner layer, each call registers
\* exactly one more loss, computed on the output y and attributed to the input X
\* as it was passed to call, on the step-wise path and on the reshape path
\* alike; without a regularizer no loss is registered.
C8_ActivityLossAttributedToInput ==
    /\ ~c_regularizer => c_losses = <<>>
    /\ c_regularizer =>
         /\ Len(c_losses) = c_calls
         /\ c_calls > 0 =>
              /\ c_losses[c_calls].loss = c_y \o <<"activity_regularizer">>
              /\ c_losses[c_calls].inputs = c_X

----------------------------------------------------------------------------
(* Bidirectional.call *)

\* A tensor is the sequence of its entries along axis 1.  The output of a
\* recurrent layer has, along axis 1, one entry per time step when the layer
\* returns sequences and one entry per unit when it returns its last output
\* only.  An entry names the layer that made it, the time step of the input it
\* was computed at, and its unit (0 for a whole time step).
Reverse(seq) == [i \in 1..Len(seq) |-> seq[Len(seq) + 1 - i]]

\* Recurrent.call(X, mask): the layer steps through X, back to front when
\* go_backwards is set, and emits its outputs in the order of its steps.
Recurrent_call(lyr, X) ==
    LET order == IF lyr.go_backwards THEN Reverse(X) ELSE X
    IN  IF lyr.return_sequences
        THEN [i \in 1..Len(order) |-> [by |-> lyr.name, time |-> order[i], unit |-> 0]]
        ELSE [u \in 1..NumUnits |-> [by |-> lyr.name, time |-> order[Len(order)], unit |-> u]]

\* K.reverse(x, 1)
K_reverse(x) == Reverse(x)

\* Mutant of lines 296-297: the backward output is never reversed.
NeverReversed(w, Y_rev) == Y_rev

\* if self.return_sequences: Y_rev = K.reverse(Y_rev, 1)
ReversedIfSequences(w, Y_rev) ==
    IF w.return_sequences THEN K_reverse(Y_rev) ELSE Y_rev

\* An elementwise operation on two tensors of the same shape.
Elementwise(op, Y, Y_rev) ==
    [i \in 1..Len(Y) |-> [op |-> op, a |-> Y[i], b |-> Y_rev[i]]]

\* K.concatenate([Y, Y_rev]): along the last axis, which is the unit axis: inside
\* each time step for sequences, axis 1 itself otherwise.
K_concatenate_last(w, Y, Y_rev) ==
    IF w.return_sequences THEN Elementwise("concat", Y, Y_rev)
    ELSE [i \in 1..(Len(Y) + Len(Y_rev)) |->
            IF i <= Len(Y) THEN [op |-> "concat", a |-> Y[i], b |-> Y[i]]
            ELSE [op |-> "concat", a |-> Y_rev[i - Len(Y)], b |-> Y_rev[i - Len(Y)]]]

\* A tensor returned as it is: each entry stands for itself.
Plain(Y) == [i \in 1..Len(Y) |-> [op |-> "id", a |-> Y[i], b |-> Y[i]]]

\* Bidirectional.call(X, mask): the value returned.
Bidirectional_call(w, X) ==
    LET Y     == Recurrent_call(w.forward_layer, X)
        Y_rev == ReversedIfSequences(w, Recurrent_call(w.backward_layer, X))
    IN  IF w.merge_mode = "concat"
        THEN [called |-> TRUE, is_list |-> FALSE, tensors |-> <<K_concatenate_last(w, Y, Y_rev)>>]
        ELSE IF w.merge_mode = "sum"
        THEN [called |-> TRUE, is_list |-> FALSE, tensors |-> <<Elementwise("add", Y, Y_rev)>>]
        ELSE IF w.merge_mode = "ave"
        THEN [called |-> TRUE, is_list |-> FALSE, tensors |-> <<Elementwise("add/2", Y, Y_rev)>>]
        ELSE IF w.merge_mode = "mul"
        THEN [called |-> TRUE, is_list |-> FALSE, tensors |-> <<Elementwise("mul", Y, Y_rev)>>]
        ELSE [called |-> TRUE, is_list |-> TRUE, tensors |-> <<Plain(Y), Plain(Y_rev)>>]

\* Bidirectional.__init__(layer, merge_mode) on a recurrent template, and the
\* X and mask of the call: X has 1..MaxSteps time steps, numbered in order.
InitBiCall ==
    /\ \E m \in MergeModes, gb \in BOOLEAN, rs \in BOOLEAN :
         b_wrapper = [merge_mode |-> m, return_sequences |-> rs,
                      forward_layer |-> [name |-> "forward", go_backwards |-> gb,
                                         return_sequences |-> rs],
                      backward_layer |-> [name |-> "backward", go_backwards |-> ~gb,
                                          return_sequences |-> rs]]
    /\ \E T \in 1..MaxSteps : b_X = [t \in 1..T |-> t]
    /\ b_mask \in {NoneStr, "mask"}
    /\ b_forward_call = [called |-> FALSE, X |-> <<>>, mask |-> NoneStr]
    /\ b_backward_call = [called |-> FALSE, X |-> <<>>, mask |-> NoneStr]
    /\ b_out = [called |-> FALSE, is_list |-> FALSE, tensors |-> <<>>]
    /\ IdleOutsideBiCall

\* out = bidirectional.call(X, mask)
BiCall ==
    /\ ~b_out.called
    /\ b_forward_call' = [called |-> TRUE, X |-> b_X, mask |-> b_mask]
    /\ b_backward_call' = [called |-> TRUE, X |-> b_X, mask |-> b_mask]
    /\ b_out' = Bidirectional_call(b_wrapper, b_X)
    /\ UNCHANGED <<b_wrapper, b_X, b_mask>>
    /\ UNCHANGED outsideBiCall

NextBiCall == BiCall

SpecBiCall == InitBiCall /\ [][NextBiCall]_vars

\* The number of time steps of X, and the operation each merge mode stands for.
Steps == Len(b_X)

MergeOp ==
    [m \in MergeModes |->
        IF m = "concat" THEN "concat" ELSE IF m = "sum" THEN "add"
        ELSE IF m = "ave" THEN "add/2" ELSE IF m = "mul" THEN "mul" ELSE "id"]

\* Both inner layers received the X and the mask of the call, and the result has
\* the form of the merge mode: one tensor made by the mode's operation, or the
\* list of two tensors for None.
SameInputsAndMergeForm ==
    /\ b_forward_call = [called |-> TRUE, X |-> b_X, mask |-> b_mask]
    /\ b_backward_call = b_forward_call
    /\ b_out.is_list <=> (b_wrapper.merge_mode = NoneStr)
    /\ Len(b_out.tensors) = IF b_wrapper.merge_mode = NoneStr THEN 2 ELSE 1
    /\ \A k \in 1..Len(b_out.tensors) : \A i \in 1..Len(b_out.tensors[k]) :
         b_out.tensors[k][i].op = MergeOp[b_wrapper.merge_mode]

\* The forward and the backward entry that meet at position t of the output
\* when sequences are returned.
ForwardAt(t) == b_out.tensors[1][t].a

BackwardAt(t) ==
    IF b_out.is_list THEN b_out.tensors[2][t].b ELSE b_out.tensors[1][t].b

\* Without sequences the backward output is left as the layer made it: units in
\* order, computed at the layer's last step.
LastOutputsUnreversed ==
    ~b_wrapper.return_sequences =>
        LET bw == IF b_out.is_list THEN b_out.tensors[2]
                  ELSE IF b_wrapper.merge_mode = "concat"
                  THEN SubSeq(b_out.tensors[1], NumUnits + 1, 2 * NumUnits)
                  ELSE b_out.tensors[1]
        IN  /\ Len(bw) = NumUnits
            /\ \A u \in 1..NumUnits : bw[u].b.by = "backward" /\ bw[u].b.unit = u

\* C9 as stated: both layers receive the same unreversed input and mask, the
\* backward output is reversed iff return_sequences, so that position t of the
\* merged output combines the forward output for time t with the backward
\* output for the same time t; the combination follows the merge mode.
C9_MergedPositionsAreTimeT ==
    b_out.called =>
        /\ SameInputsAndMergeForm
        /\ LastOutputsUnreversed
        /\ b_wrapper.return_sequences =>
             \A t \in 1..Steps :
                /\ ForwardAt(t) = [by |-> "forward", time |-> t, unit |-> 0]
                /\ BackwardAt(t) = [by |-> "backward", time |-> t, unit |-> 0]

\* C9 amended: as stated, except that position t combines the forward layer's
\* output at position t with the backward layer's output for the same time
\* step, which is step t when the template layer runs front to back and step
\* T + 1 - t when the template itself has go_backwards set.
C9_MergedPositionsAreAligned ==
    b_out.called =>
        /\ SameInputsAndMergeForm
        /\ LastOutputsUnreversed
        /\ b_wrapper.return_sequences =>
             \A t \in 1..Steps :
                /\ ForwardAt(t).by = "forward"
                /\ BackwardAt(t).by = "backward"
                /\ ForwardAt(t).time = BackwardAt(t).time
                /\ ForwardAt(t).time =
                     IF b_wrapper.forward_layer.go_backwards THEN Steps + 1 - t ELSE t

\* C9 witness: a call on three time steps with sequences returned and summed,
\* whose first position combines both layers' outputs for the first step.
C9_Witness ==
    /\ b_out.called
    /\ b_wrapper.return_sequences
    /\ b_wrapper.merge_mode = "sum"
    /\ Steps = 3
    /\ b_out.tensors[1][1] =
         [op |-> "add", a |-> [by |-> "forward", time |-> 1, unit |-> 0],
                        b |-> [by |-> "backward", time |-> 1, unit |-> 0]]

----------------------------------------------------------------------------
(* Collection properties of Bidirectional *)

ListAttributes == {"trainable_weights", "non_trainable_weights", "updates", "losses"}

\* The lists a collection of the layer can be bound to: objects of the layer's
\* own, told apart by the layer's name and a number.
ListsOf(name) == {[i \in 1..n |-> <<name, i>>] : n \in 0..MaxItems}

\* The constraint mappings of a layer: keyed by the layer's own weights.
ConstraintsOf(name) ==
    {<<>>} \cup {[k \in {name} |-> c] : c \in {"maxnorm", "nonneg"}}

\* A layer after construction: every collection empty.
EmptyCollections ==
    [trainable_weights |-> <<>>, non_trainable_weights |-> <<>>,
     updates |-> <<>>, losses |-> <<>>, constraints |-> <<>>]

\* Bidirectional.trainable_weights
Bidirectional_trainable_weights ==
    v_forward.trainable_weights \o v_backward.trainable_weights

\* Bidirectional.non_trainable_weights
Bidirectional_non_trainable_weights ==
    v_forward.non_trainable_weights \o v_backward.non_trainable_weights

\* Bidirectional.updates
Bidirectional_updates == v_forward.updates \o v_backward.updates

\* Mutant of Bidirectional.losses: the backward layer's losses are left out.
Bidirectional_losses_forward_only == v_forward.losses

\* Bidirectional.losses
Bidirectional_losses == v_forward.losses \o v_backward.losses

\* dict.update: the entries of b added to a, b's winning on a shared key.
DictUpdate(a, b) ==
    [k \in (DOMAIN a) \cup (DOMAIN b) |-> IF k \in DOMAIN b THEN b[k] ELSE a[k]]

\* Bidirectional.constraints
Bidirectional_constraints ==
    DictUpdate(DictUpdate(<<>>, v_forward.constraints), v_backward.constraints)

\* Reading the property named attr on the wrapper.
ReadList(attr) ==
    IF attr = "trainable_weights" THEN Bidirectional_trainable_weights
    ELSE IF attr = "non_trainable_weights" THEN Bidirectional_non_trainable_weights
    ELSE IF attr = "updates" THEN Bidirectional_updates
    ELSE Bidirectional_losses

NothingRead == [attr |-> "none", list |-> <<>>, dict |-> <<>>]

InitViews ==
    /\ v_forward = EmptyCollections
    /\ v_backward = EmptyCollections
    /\ v_read = NothingRead
    /\ v_changes = 0
    /\ IdleOutsideViews

\* forward_layer.<attr> = <new list> (by the layer's build, by training code)
RebindForward ==
    \E attr \in ListAttributes, new \in ListsOf("forward") :
        /\ v_changes < MaxChanges
        /\ v_forward' = [v_forward EXCEPT ![attr] = new]
        /\ v_read' = NothingRead
        /\ v_changes' = v_changes + 1
        /\ UNCHANGED v_backward
        /\ UNCHANGED outsideViews

\* backward_layer.<attr> = <new list>
RebindBackward ==
    \E attr \in ListAttributes, new \in ListsOf("backward") :
        /\ v_changes < MaxChanges
        /\ v_backward' = [v_backward EXCEPT ![attr] = new]
        /\ v_read' = NothingRead
        /\ v_changes' = v_changes + 1
        /\ UNCHANGED v_forward
        /\ UNCHANGED outsideViews

\* forward_layer.constraints = {...} or backward_layer.constraints = {...}
RebindConstraints ==
    /\ v_changes < MaxChanges
    /\ \/ /\ \E new \in ConstraintsOf("forward") :
               v_forward' = [v_forward EXCEPT !.constraints = new]
          /\ UNCHANGED v_backward
       \/ /\ \E new \in ConstraintsOf("backward") :
               v_backward' = [v_backward EXCEPT !.constraints = new]
          /\ UNCHANGED v_forward
    /\ v_read' = NothingRead
    /\ v_changes' = v_changes + 1
    /\ UNCHANGED outsideViews

\* value = bidirectional.<attr>, for one of the four list properties
ReadListProperty ==
    \E attr \in ListAttributes :
        /\ v_read' = [attr |-> attr, list |-> ReadList(attr), dict |-> <<>>]
        /\ UNCHANGED <<v_forward, v_backward, v_changes>>
        /\ UNCHANGED outsideViews

\* value = bidirectional.constraints
ReadConstraints ==
    /\ v_read' = [attr |-> "constraints", list |-> <<>>, dict |-> Bidirectional_constraints]
    /\ UNCHANGED <<v_forward, v_backward, v_changes>>
    /\ UNCHANGED outsideViews

NextViews ==
    \/ RebindForward
    \/ RebindBackward
    \/ RebindConstraints
    \/ ReadListProperty
    \/ ReadConstraints

SpecViews == InitViews /\ [][NextViews]_vars

====
